---- MODULE Spec2Model ----
(***************************************************************************)
(* The content-dump tokenizer, the name decoder and the contact            *)
(* aggregation of src/src/core/contacts_reader.py (class ContactsReader).  *)
(*                                                                         *)
(* A Python str is a sequence of characters; a character is a one-element  *)
(* TLA+ string, a non-ASCII character being written by its code point      *)
(* ("U+5F20").  A dict is a function whose domain is its key set; the      *)
(* insertion-ordered dict contact_map is a sequence of entries.            *)
(***************************************************************************)
EXTENDS Naturals, Sequences, FiniteSets, TLC

VARIABLES
    pc,              \* control position of the operation being run
    group_result,    \* get_all_contacts: rows of the groups table
    group_i,         \* get_all_contacts: group rows folded so far
    group_map,       \* get_all_contacts: group id -> group title
    results,         \* get_all_contacts: rows of the data table
    row_i,           \* get_all_contacts: data rows folded so far
    contact_map,     \* get_all_contacts: name -> Contact, in insertion order
    name,            \* get_all_contacts: the loop's local "name"
    final_contacts,  \* get_all_contacts: the returned list
    result,          \* _parse_query_result: the raw dump text
    lines,           \* _parse_query_result: result.strip().split('\n')
    line_i,          \* _parse_query_result: lines visited so far
    tok_results,     \* _parse_query_result: the local list "results"
    row_line,        \* one dump line handed to the loop body of _parse_query_result
    row_data,        \* the RawRow _parse_row_data returned for row_line
    row_text,        \* the row text _parse_row_data is called with
    sort_key_value,  \* process_value: result[key]
    decoded,         \* process_value: the returned name
    src,             \* the table row or token list the device rendered as the input text
    group_query,     \* what _run_adb_command returned for the groups query of the call
    data_query,      \* what _run_adb_command returned for the data query of the call
    history,         \* the calls of get_all_contacts that have returned: inputs and list
    gate,            \* get_all_contacts: how the device and permission checks of the call ended
    issued,          \* get_all_contacts: the uris the call has queried, in order
    contacts,        \* a Contact list to be serialized
    dicts,           \* [c.to_dict() for c in contacts]
    restored,        \* [Contact.from_dict(d) for d in dicts]
    loaded           \* what saving and loading the list through the reader gave

vars == <<pc, group_result, group_i, group_map, results, row_i, contact_map, name,
          final_contacts, result, lines, line_i, tok_results, row_line, row_data,
          row_text, sort_key_value, decoded, src, group_query, data_query, history, gate, issued,
          contacts, dicts, restored, loaded>>

aggVars == <<group_result, group_i, group_map, results, row_i, contact_map, name,
             final_contacts>>
tokVars == <<result, lines, line_i, tok_results>>
rowVars == <<row_line, row_data, row_text>>
nameVars == <<sort_key_value, decoded>>
scanVars == <<group_query, data_query, history, gate, issued>>
serVars == <<contacts, dicts, restored, loaded>>

\* The variables of the operations a specification does not run.
AggIdle ==
    /\ group_result = <<>>
    /\ group_i = 0
    /\ group_map = <<>>
    /\ results = <<>>
    /\ row_i = 0
    /\ contact_map = <<>>
    /\ name = <<>>
    /\ final_contacts = <<>>
TokIdle == result = <<>> /\ lines = <<>> /\ line_i = 0 /\ tok_results = <<>>
RowIdle == row_line = <<>> /\ row_data = <<>> /\ row_text = <<>>
NameIdle == sort_key_value = <<>> /\ decoded = <<>>
ScanIdle ==
    group_query = <<>> /\ data_query = <<>> /\ history = <<>> /\ gate = "" /\ issued = <<>>
SerIdle == contacts = <<>> /\ dicts = <<>> /\ restored = <<>> /\ loaded = <<>>

(***************************************************************************)
(* Bounds of the model.                                                    *)
(***************************************************************************)
MaxRows == 3
MaxLines == 3
MaxCols == 2
MaxTokens == 6
MaxCalls == 2
MaxSaved == 2
MaxParts == 3

(***************************************************************************)
(* Python str and dict primitives, as the code uses them.                  *)
(***************************************************************************)
Whitespace == {" ", "\t", "\n", "\r"}

\* The characters str.isdigit holds of: the ASCII digits and, of the other Unicode
\* digits, ARABIC-INDIC DIGIT THREE (U+0663) and SUPERSCRIPT TWO (U+00B2).
AsciiDigits == {"0", "1", "2", "3", "4", "5", "6", "7", "8", "9"}
Digits == AsciiDigits \cup {"U+0663", "U+00B2"}

\* The characters outside ASCII that the model's inputs use, and their code points.
NonAscii == {"U+00B2", "U+0663", "U+4DFF", "U+4E00", "U+4E09", "U+5F20", "U+660E",
             "U+674E", "U+96F7", "U+9FFF", "U+A000"}

CodePoint(c) ==
    CASE c = "U+00B2" -> 178
      [] c = "U+0663" -> 1635
      [] c = "U+4DFF" -> 19967
      [] c = "U+4E00" -> 19968
      [] c = "U+4E09" -> 19977
      [] c = "U+5F20" -> 24352
      [] c = "U+660E" -> 26126
      [] c = "U+674E" -> 26446
      [] c = "U+96F7" -> 38647
      [] c = "U+9FFF" -> 40959
      [] c = "U+A000" -> 40960

\* The characters the class [\u4e00-\u9fff] matches.
Han == {c \in NonAscii : CodePoint(c) >= 19968 /\ CodePoint(c) <= 40959}

SetMin(S) == CHOOSE x \in S : \A y \in S : x <= y
SetMax(S) == CHOOSE x \in S : \A y \in S : x >= y

\* s[i:] begins with sub (1-based i).
MatchAt(s, sub, i) ==
    /\ i + Len(sub) - 1 <= Len(s)
    /\ \A k \in 1..Len(sub) : s[i + k - 1] = sub[k]

\* str.find(sub) + 1: the 1-based place of the first occurrence, 0 if none.
str_find(s, sub) ==
    LET hits == {i \in 1..Len(s) : MatchAt(s, sub, i)}
    IN  IF hits = {} THEN 0 ELSE SetMin(hits)

\* sub in s
str_contains(s, sub) == \E i \in 1..(Len(s) + 1) : MatchAt(s, sub, i)

str_startswith(s, sub) == MatchAt(s, sub, 1)

str_endswith(s, sub) == Len(sub) <= Len(s) /\ MatchAt(s, sub, Len(s) - Len(sub) + 1)

\* str.strip()
str_strip(s) ==
    LET keep == {i \in 1..Len(s) : s[i] \notin Whitespace}
    IN  IF keep = {} THEN <<>> ELSE SubSeq(s, SetMin(keep), SetMax(keep))

\* str.split(sep), sep non-empty
RECURSIVE str_split(_, _)
str_split(s, sep) ==
    LET p == str_find(s, sep)
    IN  IF p = 0 THEN <<s>>
        ELSE <<SubSeq(s, 1, p - 1)>> \o str_split(SubSeq(s, p + Len(sep), Len(s)), sep)

\* str.split(sep, 1)
str_split1(s, sep) ==
    LET p == str_find(s, sep)
    IN  IF p = 0 THEN <<s>>
        ELSE <<SubSeq(s, 1, p - 1), SubSeq(s, p + Len(sep), Len(s))>>

\* str.split(): the maximal runs of non-whitespace characters
RECURSIVE str_split_ws(_)
str_split_ws(s) ==
    LET keep == {i \in 1..Len(s) : s[i] \notin Whitespace}
    IN  IF keep = {} THEN <<>>
        ELSE LET b == SetMin(keep)
                 ws == {i \in b..Len(s) : s[i] \in Whitespace}
                 e == IF ws = {} THEN Len(s) + 1 ELSE SetMin(ws)
             IN  <<SubSeq(s, b, e - 1)>> \o str_split_ws(SubSeq(s, e, Len(s)))

\* str.count(c) for a one-character c
str_count(s, c) == Cardinality({i \in 1..Len(s) : s[i] = c})

\* sep.join(parts)
RECURSIVE str_join(_, _)
str_join(sep, parts) ==
    IF parts = <<>> THEN <<>>
    ELSE IF Len(parts) = 1 THEN parts[1]
    ELSE parts[1] \o sep \o str_join(sep, Tail(parts))

\* dict.get(key, default)
dict_get(d, key, default) == IF key \in DOMAIN d THEN d[key] ELSE default

\* A variant that keeps the value a key already has.
dict_set_first(d, key, value) ==
    [k \in (DOMAIN d) \cup {key} |-> IF k \in DOMAIN d THEN d[k] ELSE value]

\* d[key] = value
dict_set(d, key, value) ==
    [k \in (DOMAIN d) \cup {key} |-> IF k = key THEN value ELSE d[k]]

EmptyDict == [k \in {} |-> <<>>]

(***************************************************************************)
(* String constants of the code.                                           *)
(***************************************************************************)
RowMarker == <<"R", "o", "w", ":">>
FieldSep == <<",", " ">>
NullLiteral == <<"N", "U", "L", "L">>
NoteSep == <<" ", "|", " ">>
k_id == <<"_", "i", "d">>
k_title == <<"t", "i", "t", "l", "e">>
k_mimetype == <<"m", "i", "m", "e", "t", "y", "p", "e">>
k_data1 == <<"d", "a", "t", "a", "1">>
k_sort_key == <<"s", "o", "r", "t", "_", "k", "e", "y">>
k_display_name == <<"d", "i", "s", "p", "l", "a", "y", "_", "n", "a", "m", "e">>
k_display_name_alt == <<"d", "i", "s", "p", "l", "a", "y", "_", "n", "a", "m", "e", "_", "a", "l", "t">>
mime_item == <<"v", "n", "d", ".", "a", "n", "d", "r", "o", "i", "d", ".", "c", "u", "r", "s", "o", "r", ".", "i", "t", "e", "m", "/">>
mime_phone == mime_item \o <<"p", "h", "o", "n", "e", "_", "v", "2">>
mime_email == mime_item \o <<"e", "m", "a", "i", "l", "_", "v", "2">>
mime_group == mime_item \o <<"g", "r", "o", "u", "p", "_", "m", "e", "m", "b", "e", "r", "s", "h", "i", "p">>
mime_note == mime_item \o <<"n", "o", "t", "e">>

(***************************************************************************)
(* RowTokenizer: _parse_row_data and _parse_query_result.                  *)
(***************************************************************************)
\* A variant without the NULL handling.
NullToEmpty_kept(value) == value

\* 'NULL' -> ''
NullToEmpty(value) == IF value = NullLiteral THEN <<>> ELSE value

\* The test of the inner loop (lines 184-189): next_part starts the next pair.
IsNextPair(next_part) ==
    /\ str_contains(next_part, <<"=">>)
    /\ ~str_startswith(next_part, <<"=">>)
    /\ ~str_endswith(next_part, <<"=">>)
    /\ LET eq_idx == str_find(next_part, <<"=">>) - 1
       IN  eq_idx > 0 /\ eq_idx < Len(next_part) - 1

\* The inner while loop (lines 181-191): the first j >= j0 (0-based) whose part
\* starts the next pair, len(parts) if there is none.
\* Variants of the inner loop: one that never stops before the end of the row, one
\* that absorbs nothing.
AbsorbEnd_all(parts, j) == Len(parts)
AbsorbEnd_none(parts, j) == j

RECURSIVE AbsorbEnd(_, _)
AbsorbEnd(parts, j) ==
    IF j < Len(parts) /\ ~IsNextPair(parts[j + 1]) THEN AbsorbEnd(parts, j + 1) ELSE j

\* The outer while loop (lines 159-199) from 0-based index i with dict acc.
RECURSIVE ParseParts(_, _, _)
ParseParts(parts, i, acc) ==
    IF i >= Len(parts) THEN acc
    ELSE LET part == parts[i + 1] IN
         IF ~str_contains(part, <<"=">>) THEN ParseParts(parts, i + 1, acc)
         ELSE LET kv == str_split1(part, <<"=">>)
                  key == str_strip(kv[1])
              IN  IF str_count(part, "=") = 1
                  THEN ParseParts(parts, i + 1,
                                  dict_set(acc, key, NullToEmpty(str_strip(kv[2]))))
                  ELSE LET j == AbsorbEnd(parts, i + 1)
                           value_parts == <<kv[2]>> \o SubSeq(parts, i + 2, j)
                           value == str_strip(str_join(FieldSep, value_parts))
                       IN  ParseParts(parts, j, dict_set(acc, key, NullToEmpty(value)))

_parse_row_data(row_content) == ParseParts(str_split(row_content, FieldSep), 0, EmptyDict)

\* The body of the for loop for one line that starts with 'Row:' (lines 123-128).
ParseRowLine(line) == _parse_row_data(str_strip(str_split(line, RowMarker)[2]))

(***************************************************************************)
(* NameResolver: is_chinese, process_value, extract_even_positions.        *)
(***************************************************************************)
is_chinese(text) ==
    LET words == str_split_ws(text)
    IN  \E w \in 1..Len(words) : \E i \in 1..Len(words[w]) : words[w][i] \in Han

\* A mutation of OddSlice: words[0::2].
OddSlice_even(words) == [k \in 1..((Len(words) + 1) \div 2) |-> words[2 * k - 1]]

\* words[1::2]
OddSlice(words) == [k \in 1..(Len(words) \div 2) |-> words[2 * k]]

extract_even_positions(text) ==
    LET selected == OddSlice(str_split_ws(text))
    IN  IF Len(selected) = 2 THEN str_join(<<" ">>, selected)
        ELSE str_join(<<>>, selected)

\* A mutation of process_value: every value is decoded, CJK or not.
process_value_decoded(row, key) == extract_even_positions(row[key])

process_value(row, key) ==
    LET value == row[key]
    IN  IF is_chinese(value) THEN extract_even_positions(value) ELSE value

(***************************************************************************)
(* The text of a content dump, as the device prints a table row:           *)
(* "Row: <index> <col>=<val>, <col>=<val>, ...".                           *)
(***************************************************************************)
RenderCols(cols) == str_join(FieldSep, [i \in 1..Len(cols) |-> cols[i][1] \o <<"=">> \o cols[i][2]])

RenderRow(index, cols) == RowMarker \o <<" ">> \o index \o <<" ">> \o RenderCols(cols)

SeqsUpTo(S, n) == UNION {[1..k -> S] : k \in 0..n}

(***************************************************************************)
(* ValueNormalizer and the Contact record.                                 *)
(***************************************************************************)
\* A mutation of _normalize_phone: the raw value is kept.
_normalize_phone_raw(phone) == phone

\* ''.join(filter(str.isdigit, phone))
_normalize_phone(phone) ==
    IF phone = <<>> THEN <<>> ELSE SelectSeq(phone, LAMBDA c : c \in Digits)

\* Contact(name=name)
Contact(nm) == [name |-> nm, phone |-> <<>>, email |-> <<>>, group |-> <<>>, notes |-> <<>>]

\* x in list
list_contains(l, x) == \E i \in 1..Len(l) : l[i] = x

(***************************************************************************)
(* ContactAggregator: get_all_contacts.                                    *)
(***************************************************************************)
\* A mutation of NameKeys: display_name is tried before sort_key.
NameKeys_swapped == <<k_display_name, k_sort_key, k_display_name_alt>>

\* The keys the name is looked for under, in this order (line 325).
NameKeys == <<k_sort_key, k_display_name, k_display_name_alt>>

\* A variant that goes on to the next key when the decoded value is empty.
RECURSIVE ResolveFrom_fallback(_, _)
ResolveFrom_fallback(row, keys) ==
    IF keys = <<>> THEN <<>>
    ELSE IF /\ Head(keys) \in DOMAIN row
            /\ row[Head(keys)] # <<>>
            /\ process_value(row, Head(keys)) # <<>>
         THEN process_value(row, Head(keys))
         ELSE ResolveFrom_fallback(row, Tail(keys))

\* The for loop of lines 324-328 over the keys left.
RECURSIVE ResolveFrom(_, _)
ResolveFrom(row, keys) ==
    IF keys = <<>> THEN <<>>
    ELSE IF Head(keys) \in DOMAIN row /\ row[Head(keys)] # <<>>
         THEN process_value(row, Head(keys))
         ELSE ResolveFrom(row, Tail(keys))

ResolveName(row) == ResolveFrom(row, NameKeys)

\* Mutant of MapHas: only the first entry is compared.
MapHas_first(cm, nm) == Len(cm) > 0 /\ cm[1].key = nm

\* name in contact_map
MapHas(cm, nm) == \E i \in 1..Len(cm) : cm[i].key = nm

\* The place of contact_map[name]
MapIndex(cm, nm) == SetMin({i \in 1..Len(cm) : cm[i].key = nm})

\* lines 342-345
AddPhone(contact, data1) ==
    LET normalized == _normalize_phone(data1)
    IN  IF normalized # <<>> /\ ~list_contains(contact.phone, normalized)
        THEN [contact EXCEPT !.phone = Append(@, normalized)]
        ELSE contact

\* A mutation of AddEmail: the value is appended whether or not the list holds it.
AddEmail_always(contact, data1) == [contact EXCEPT !.email = Append(@, data1)]

\* lines 347-349
AddEmail(contact, data1) ==
    IF ~list_contains(contact.email, data1)
    THEN [contact EXCEPT !.email = Append(@, data1)]
    ELSE contact

\* A mutation of AddGroup: the label is appended whether or not the group holds it.
AddGroup_always(contact, gm, data1) ==
    LET group_name == dict_get(gm, data1, <<>>)
    IN  IF group_name # <<>>
        THEN IF contact.group # <<>>
             THEN [contact EXCEPT !.group = @ \o FieldSep \o group_name]
             ELSE [contact EXCEPT !.group = group_name]
        ELSE contact

\* lines 351-358
AddGroup(contact, gm, data1) ==
    LET group_name == dict_get(gm, data1, <<>>)
    IN  IF group_name # <<>> /\ ~str_contains(contact.group, group_name)
        THEN IF contact.group # <<>>
             THEN [contact EXCEPT !.group = @ \o FieldSep \o group_name]
             ELSE [contact EXCEPT !.group = group_name]
        ELSE contact

\* A mutation of AddNote: the value is appended whether or not the notes hold it.
AddNote_always(contact, data1) ==
    IF contact.notes # <<>>
    THEN [contact EXCEPT !.notes = @ \o NoteSep \o data1]
    ELSE [contact EXCEPT !.notes = data1]

\* A mutation of AddNote: a later note takes the place of the notes.
AddNote_replaced(contact, data1) == [contact EXCEPT !.notes = data1]

\* lines 360-366
AddNote(contact, data1) ==
    IF contact.notes # <<>>
    THEN IF ~str_contains(contact.notes, data1)
         THEN [contact EXCEPT !.notes = @ \o NoteSep \o data1]
         ELSE contact
    ELSE [contact EXCEPT !.notes = data1]

\* A mutation of Dispatch: a kind that is none of the four is taken for a note.
Dispatch_else_note(contact, mimetype, data1, gm) ==
    IF mimetype = mime_phone THEN AddPhone(contact, data1)
    ELSE IF mimetype = mime_email THEN AddEmail(contact, data1)
    ELSE IF mimetype = mime_group THEN AddGroup(contact, gm, data1)
    ELSE AddNote(contact, data1)

\* lines 342-366: the dispatch on mimetype
Dispatch(contact, mimetype, data1, gm) ==
    IF mimetype = mime_phone THEN AddPhone(contact, data1)
    ELSE IF mimetype = mime_email THEN AddEmail(contact, data1)
    ELSE IF mimetype = mime_group THEN AddGroup(contact, gm, data1)
    ELSE IF mimetype = mime_note THEN AddNote(contact, data1)
    ELSE contact

\* A mutation of FoldRow: a row without a name is not skipped.
FoldRow_unnamed(cm, gm, row) ==
    LET mimetype == dict_get(row, k_mimetype, <<>>)
        data1 == dict_get(row, k_data1, <<>>)
        nm == ResolveName(row)
    IN  IF data1 = <<>> THEN cm
        ELSE LET cm1 == IF MapHas(cm, nm) THEN cm
                        ELSE Append(cm, [key |-> nm, value |-> Contact(nm)])
                 i == MapIndex(cm1, nm)
             IN  [cm1 EXCEPT ![i].value = Dispatch(@, mimetype, data1, gm)]

\* One iteration of the for loop (lines 317-366): contact_map afterwards.
FoldRow(cm, gm, row) ==
    LET mimetype == dict_get(row, k_mimetype, <<>>)
        data1 == dict_get(row, k_data1, <<>>)
        nm == ResolveName(row)
    IN  IF data1 = <<>> \/ nm = <<>> THEN cm
        ELSE LET cm1 == IF MapHas(cm, nm) THEN cm
                        ELSE Append(cm, [key |-> nm, value |-> Contact(nm)])
                 i == MapIndex(cm1, nm)
             IN  [cm1 EXCEPT ![i].value = Dispatch(@, mimetype, data1, gm)]

\* The whole for loop (lines 317-366) over rows, from contact_map cm.
RECURSIVE FoldRows(_, _, _)
FoldRows(cm, gm, rows) ==
    IF rows = <<>> THEN cm ELSE FoldRows(FoldRow(cm, gm, Head(rows)), gm, Tail(rows))

\* A mutation of MapValues: the values are listed from the newest entry to the oldest.
MapValues_reversed(cm) == [i \in 1..Len(cm) |-> cm[Len(cm) + 1 - i].value]

\* list(contact_map.values())
MapValues(cm) == [i \in 1..Len(cm) |-> cm[i].value]

\* A mutation of FoldGroup: a row with an identifier is entered, title or not.
FoldGroup_untitled(gm, row) ==
    LET group_id == dict_get(row, k_id, <<>>)
        group_name == dict_get(row, k_title, <<>>)
    IN  IF group_id # <<>> THEN dict_set(gm, group_id, group_name) ELSE gm

\* One iteration of the for loop of lines 301-305: group_map afterwards.
FoldGroup(gm, row) ==
    LET group_id == dict_get(row, k_id, <<>>)
        group_name == dict_get(row, k_title, <<>>)
    IN  IF group_id # <<>> /\ group_name # <<>> THEN dict_set(gm, group_id, group_name) ELSE gm

(***************************************************************************)
(* The tables the device answers the two content queries with, as the      *)
(* tokenizer returns their rows.                                           *)
(***************************************************************************)
GroupLine(index, cols) == ParseRowLine(RenderRow(index, cols))

sys_id == <<<<<<"s", "y", "s", "t", "e", "m", "_", "i", "d">>, <<"N", "U", "L", "L">>>>>>

GroupTables == {
    <<>>,
    << GroupLine(<<"0">>, <<<<k_id, <<"1">>>>, <<k_title, <<"B">>>>>>),
       GroupLine(<<"1">>, sys_id \o <<<<k_id, <<"1">>>>, <<k_title, <<"A", "B">>>>>>),
       GroupLine(<<"2">>, sys_id \o <<<<k_title, <<"B">>>>, <<k_id, <<"2">>>>>>),
       GroupLine(<<"3">>, sys_id \o <<<<k_title, <<"N", "U", "L", "L">>>>, <<k_id, <<"3">>>>>>),
       GroupLine(<<"4">>, sys_id \o <<<<k_title, <<"C">>>>>>),
       GroupLine(<<"5">>, sys_id \o <<<<k_id, <<"2">>>>, <<k_title, <<"A">>>>>>) >> }

DataLine(mimetype, data1, namecols) ==
    ParseRowLine(RenderRow(<<"0">>, <<<<<<"s", "t", "a", "r", "r", "e", "d">>, <<"0">>>>, <<k_mimetype, mimetype>>,
                                  <<k_data1, data1>>>> \o namecols))

nAl == <<<<k_sort_key, <<"A", "l">>>>>>
nBo == <<<<k_display_name, <<"B", "o">>>>>>
nBoAlt == <<<<k_display_name_alt, <<"B", "o">>>>, <<k_sort_key, <<"N", "U", "L", "L">>>>>>
nZS == <<<<k_sort_key, <<"U+5F20", " ", "Z", " ", "U+4E09", " ", "S">>>>, <<k_display_name, <<"U+5F20", "U+4E09">>>>>>
nCy == <<<<<<"s", "o", "r", "t", "_", "k", "e", "y", "_", "a", "l", "t">>, <<"C", "y">>>>>>
nHan == <<<<k_sort_key, <<"U+674E">>>>, <<k_display_name, <<"D", "i">>>>>>

DataRows == {
    DataLine(mime_phone, <<"5", "5", "5", "-", "1", "2", "3", "4">>, nAl),
    DataLine(mime_phone, <<"5", "5", "5", "1", "2", "3", "4">>, nAl),
    DataLine(mime_phone, <<"+", "U+0663", "5">>, nAl),
    DataLine(mime_phone, <<"N", "U", "L", "L">>, nAl),
    ParseRowLine(RenderRow(<<"0">>, <<<<<<"s", "t", "a", "r", "r", "e", "d">>, <<"0">>>>, <<k_mimetype, mime_note>>>> \o nAl)),
    DataLine(mime_email, <<"e", "@", "x">>, nZS),
    DataLine(mime_email, <<"E", "@", "x">>, nZS),
    DataLine(mime_group, <<"1">>, nAl),
    DataLine(mime_group, <<"2">>, nAl),
    DataLine(mime_group, <<"9">>, nBo),
    DataLine(mime_note, <<"a", "b">>, nAl),
    DataLine(mime_note, <<"a">>, nAl),
    DataLine(mime_note, <<"c">>, nBoAlt),
    DataLine(mime_item \o <<"n", "a", "m", "e">>, <<"x">>, nAl),
    DataLine(mime_phone, <<"8">>, nCy),
    DataLine(mime_email, <<"e", "@", "x">>, nHan) }

Init ==
    /\ pc = "query_groups"
    /\ group_result = <<>>
    /\ group_i = 0
    /\ group_map = EmptyDict
    /\ results = <<>>
    /\ row_i = 0
    /\ contact_map = <<>>
    /\ name = <<>>
    /\ final_contacts = <<>>
    /\ src = <<>>
    /\ TokIdle
    /\ RowIdle
    /\ NameIdle
    /\ ScanIdle
    /\ SerIdle

\* line 300: the groups table is queried
QueryGroups ==
    /\ pc = "query_groups"
    /\ \E table \in GroupTables : group_result' = table
    /\ pc' = "groups_loop"
    /\ UNCHANGED <<group_i, group_map, results, row_i, contact_map, name, final_contacts,
                   src, serVars, scanVars, tokVars, rowVars, nameVars>>

\* lines 301-305: one group row
GroupRow ==
    /\ pc = "groups_loop"
    /\ group_i < Len(group_result)
    /\ group_map' = FoldGroup(group_map, group_result[group_i + 1])
    /\ group_i' = group_i + 1
    /\ UNCHANGED <<pc, group_result, results, row_i, contact_map, name, final_contacts,
                   src, serVars, scanVars, tokVars, rowVars, nameVars>>

\* lines 310-315: the data table is queried
QueryData ==
    /\ pc = "groups_loop"
    /\ group_i = Len(group_result)
    /\ \E rows \in SeqsUpTo(DataRows, MaxRows) : results' = rows
    /\ pc' = "data_loop"
    /\ UNCHANGED <<group_result, group_i, group_map, row_i, contact_map, name,
                   final_contacts, src, serVars, scanVars, tokVars, rowVars, nameVars>>

\* A variant of the data row whose group lookup enters an unknown id in group_map
\* (a lookup by setdefault instead of get).
DataRow_setdefault ==
    /\ pc = "data_loop"
    /\ row_i < Len(results)
    /\ LET row == results[row_i + 1]
       IN  /\ contact_map' = FoldRow(contact_map, group_map, row)
           /\ name' = IF dict_get(row, k_data1, <<>>) = <<>> THEN name ELSE ResolveName(row)
           /\ group_map' = IF /\ dict_get(row, k_data1, <<>>) # <<>>
                              /\ ResolveName(row) # <<>>
                              /\ dict_get(row, k_mimetype, <<>>) = mime_group
                              /\ row[k_data1] \notin DOMAIN group_map
                           THEN dict_set(group_map, row[k_data1], <<>>)
                           ELSE group_map
    /\ row_i' = row_i + 1
    /\ UNCHANGED <<pc, group_result, group_i, results, final_contacts,
                   src, serVars, scanVars, tokVars, rowVars, nameVars>>

\* lines 317-366: one data row
DataRow ==
    /\ pc = "data_loop"
    /\ row_i < Len(results)
    /\ LET row == results[row_i + 1]
       IN  /\ contact_map' = FoldRow(contact_map, group_map, row)
           /\ name' = IF dict_get(row, k_data1, <<>>) = <<>> THEN name ELSE ResolveName(row)
    /\ row_i' = row_i + 1
    /\ UNCHANGED <<pc, group_result, group_i, group_map, results, final_contacts,
                   src, serVars, scanVars, tokVars, rowVars, nameVars>>

\* lines 368-370: list(contact_map.values())
Return ==
    /\ pc = "data_loop"
    /\ row_i = Len(results)
    /\ final_contacts' = MapValues(contact_map)
    /\ pc' = "done"
    /\ UNCHANGED <<group_result, group_i, group_map, results, row_i, contact_map, name,
                   src, serVars, scanVars, tokVars, rowVars, nameVars>>

Next == QueryGroups \/ GroupRow \/ QueryData \/ DataRow \/ Return

Spec == Init /\ [][Next]_vars

(***************************************************************************)
(* One dump line through the loop body of _parse_query_result.             *)
(***************************************************************************)
ColLabels == {<<"a">>, <<"b">>}
ColValues == {<<"v">>, <<"N", "U", "L", "L">>, <<"x", ",", " ", "y">>, <<"p", "=", "q">>, <<"p", "=", "q", ",", " ", "y">>, <<" ", "w">>}
RowIndexes == {<<"0">>, <<"1", "2">>}
RowSources == [index : RowIndexes, cols : SeqsUpTo(ColLabels \X ColValues, MaxCols)]

RowInit ==
    /\ pc = "row_in"
    /\ src \in RowSources
    /\ row_line = RenderRow(src.index, src.cols)
    /\ row_data = EmptyDict
    /\ row_text = <<>>
    /\ AggIdle
    /\ TokIdle
    /\ NameIdle
    /\ ScanIdle
    /\ SerIdle

RowParse ==
    /\ pc = "row_in"
    /\ str_startswith(row_line, RowMarker)
    /\ row_data' = ParseRowLine(row_line)
    /\ pc' = "row_out"
    /\ UNCHANGED <<aggVars, tokVars, nameVars, row_line, row_text, src, serVars, scanVars>>

RowNext == RowParse

SpecRow == RowInit /\ [][RowNext]_vars

(***************************************************************************)
(* _parse_row_data on a row text made of tokens joined by ", ".            *)
(***************************************************************************)
PartTokens == {<<"a", "=", "1">>, <<"c", "=", "N", "U", "L", "L">>, <<" ", "a", " ", "=", " ", "2", " ">>, <<"b", "=", "x", "=", "y">>, <<"b", "=", " ", "p", "=", "q", " ">>, <<"w">>, <<"=", "z">>,
               <<"c", "=">>, <<"d", "a", "t", "a", "1", "=", "H", "e", "l", "l", "o">>, <<"w", "o", "r", "l", "d", "=", "1">>,
               <<"m", "i", "m", "e", "t", "y", "p", "e", "=", "v", "n", "d", ".", "a", "n", "d", "r", "o", "i", "d", ".", "c", "u", "r", "s", "o", "r", ".", "i", "t", "e", "m", "/", "n", "o", "t", "e">>}
PartSources == [parts : SeqsUpTo(PartTokens, MaxParts)]

\* row_text is line.split('Row:')[1].strip() (line 125): it has no outer whitespace.
PartsInit ==
    /\ pc = "parts_in"
    /\ src \in PartSources
    /\ row_text = str_strip(str_join(FieldSep, src.parts))
    /\ row_data = EmptyDict
    /\ row_line = <<>>
    /\ AggIdle
    /\ TokIdle
    /\ NameIdle
    /\ ScanIdle
    /\ SerIdle

PartsParse ==
    /\ pc = "parts_in"
    /\ row_data' = _parse_row_data(row_text)
    /\ pc' = "parts_out"
    /\ UNCHANGED <<aggVars, tokVars, nameVars, row_line, row_text, src, serVars,
                   scanVars>>

PartsNext == PartsParse

SpecParts == PartsInit /\ [][PartsNext]_vars

(***************************************************************************)
(* _parse_query_result over a whole dump.                                  *)
(***************************************************************************)
TokLines == {
    <<"R", "o", "w", ":", " ", "0", " ", "a", "=", "v">>,
    <<"R", "o", "w", ":", " ", "1", " ", "b", "=", "N", "U", "L", "L", ",", " ", "a", "=", "x">>,
    <<" ", "R", "o", "w", ":", " ", "2", " ", "a", "=", "w">>,
    <<"R", "o", "w", ":">>,
    <<"R", "o", "w", "s", " ", "3", " ", "a", "=", "v">>,
    <<"N", "o", " ", "r", "e", "s", "u", "l", "t", " ", "f", "o", "u", "n", "d", ".">>,
    <<>>,
    <<"R", "o", "w", ":", " ", "4", " ", "a", "=", "u", "\r">> }

TokTexts == {str_join(<<"\n">>, ls) : ls \in SeqsUpTo(TokLines, MaxLines)}

TokInit ==
    /\ pc = "tok_start"
    /\ result \in TokTexts
    /\ lines = <<>>
    /\ line_i = 0
    /\ tok_results = <<>>
    /\ src = <<>>
    /\ AggIdle
    /\ RowIdle
    /\ NameIdle
    /\ ScanIdle
    /\ SerIdle

\* lines 109-114: the empty check, then result.strip().split('\n')
TokSplit ==
    /\ pc = "tok_start"
    /\ IF result = <<>> \/ str_strip(result) = <<>>
       THEN /\ pc' = "tok_done"
            /\ UNCHANGED lines
       ELSE /\ pc' = "tok_loop"
            /\ lines' = str_split(str_strip(result), <<"\n">>)
    /\ UNCHANGED <<result, line_i, tok_results, src, serVars, scanVars, aggVars, rowVars, nameVars>>

\* A mutation of TokAppend: the marker is looked for anywhere in the line.
TokAppend_anywhere(rs, line) ==
    IF str_contains(line, RowMarker) THEN Append(rs, ParseRowLine(line)) ELSE rs

\* A mutation of TokAppend: every line gives a row, the marker or not.
TokAppend_every(rs, line) ==
    Append(rs, IF str_startswith(line, RowMarker) THEN ParseRowLine(line) ELSE EmptyDict)

\* What one iteration of the for loop (lines 118-139) makes of results.
TokAppend(rs, line) ==
    IF str_startswith(line, RowMarker) THEN Append(rs, ParseRowLine(line)) ELSE rs

TokLine ==
    /\ pc = "tok_loop"
    /\ line_i < Len(lines)
    /\ tok_results' = TokAppend(tok_results, lines[line_i + 1])
    /\ line_i' = line_i + 1
    /\ UNCHANGED <<pc, result, lines, src, serVars, scanVars, aggVars, rowVars, nameVars>>

\* lines 141-142
TokReturn ==
    /\ pc = "tok_loop"
    /\ line_i = Len(lines)
    /\ pc' = "tok_done"
    /\ UNCHANGED <<result, lines, line_i, tok_results, src, serVars, scanVars, aggVars, rowVars, nameVars>>

TokNext == TokSplit \/ TokLine \/ TokReturn

SpecTok == TokInit /\ [][TokNext]_vars

(***************************************************************************)
(* process_value over sort-key values.                                     *)
(***************************************************************************)
NameTokens == {<<"U+4E00">>, <<"Z", "h">>, <<"s", "U+9FFF">>, <<"U+4DFF", "U+A000">>}
NameGaps == {<<" ">>, <<" ", "\t", " ">>}
NameSources == [tokens : SeqsUpTo(NameTokens, MaxTokens), gap : NameGaps, lead : {<<>>, <<" ">>}]
        \cup {[tokens |-> <<<<"U+5F20">>, <<"Z", "h", "a", "n", "g">>, <<"U+4E09">>, <<"S", "a", "n">>>>, gap |-> <<" ">>, lead |-> <<>>],
              [tokens |-> <<<<"U+674E">>, <<"L", "i">>, <<"U+96F7">>, <<"L", "e", "i">>, <<"U+660E">>, <<"M", "i", "n", "g">>>>,
               gap |-> <<" ">>, lead |-> <<>>]}

RenderName(s) == s.lead \o str_join(s.gap, s.tokens) \o s.lead

NameInit ==
    /\ pc = "name_in"
    /\ src \in NameSources
    /\ sort_key_value = RenderName(src)
    /\ decoded = <<>>
    /\ AggIdle
    /\ TokIdle
    /\ RowIdle
    /\ ScanIdle
    /\ SerIdle

NameDecode ==
    /\ pc = "name_in"
    /\ decoded' = process_value([k \in {k_sort_key} |-> sort_key_value], k_sort_key)
    /\ pc' = "name_out"
    /\ UNCHANGED <<sort_key_value, src, serVars, scanVars, aggVars, tokVars, rowVars>>

NameNext == NameDecode

SpecName == NameInit /\ [][NameNext]_vars

(***************************************************************************)
(* Calls of get_all_contacts on one ContactsReader, from the outputs of    *)
(* the two content queries to the returned list.                           *)
(***************************************************************************)
\* The for loop of lines 118-139 over the lines left.
RECURSIVE TokRows(_, _)
TokRows(rs, ls) == IF ls = <<>> THEN rs ELSE TokRows(TokAppend(rs, Head(ls)), Tail(ls))

\* lines 109-142
_parse_query_result(text) ==
    IF text = <<>> \/ str_strip(text) = <<>> THEN <<>>
    ELSE TokRows(<<>>, str_split(str_strip(text), <<"\n">>))

\* A mutation of _run_query: the text is parsed whether the command succeeded or not.
_run_query_unchecked(q) == _parse_query_result(q.result)

\* lines 85-96: q is the pair (success, result) _run_adb_command returned
_run_query(q) ==
    IF ~q.success \/ q.result = <<>> THEN <<>> ELSE _parse_query_result(q.result)

\* The whole for loop of lines 301-305 over rows, from group_map gm.
RECURSIVE FoldGroups(_, _)
FoldGroups(gm, rows) ==
    IF rows = <<>> THEN gm ELSE FoldGroups(FoldGroup(gm, Head(rows)), Tail(rows))

\* A mutation of NewGroupMap: the map of the call before is kept.
NewGroupMap_kept == group_map

\* line 298: group_map = {}
NewGroupMap == EmptyDict

\* A mutation of NewContactMap: the map of the call before is kept.
NewContactMap_kept == contact_map

\* line 315: contact_map = {}
NewContactMap == <<>>

\* The standard output of a groups query that succeeded.
GroupTexts == {
    <<>>,
    <<"R", "o", "w", ":", " ", "0", " ", "s", "y", "s", "t", "e", "m", "_", "i", "d", "=", "N", "U", "L", "L", ",", " ", "_", "i", "d", "=", "1", ",", " ", "t", "i", "t", "l", "e", "=", "A", "B">> }

\* The text that comes with a groups query that failed.
GroupErrors == {
    <<"e", "r", "r", "o", "r", ":", " ", "d", "e", "v", "i", "c", "e", " ", "o", "f", "f", "l", "i", "n", "e">>,
    <<"R", "o", "w", ":", " ", "0", " ", "s", "y", "s", "t", "e", "m", "_", "i", "d", "=", "N", "U", "L", "L", ",", " ", "_", "i", "d", "=", "1", ",", " ", "t", "i", "t", "l", "e", "=", "A", "B">> }

\* The standard output of a data query that succeeded.
DataTexts == {
    <<>>,
    <<" ", "\n">>,
    <<"R", "o", "w", ":", " ", "0", " ", "s", "t", "a", "r", "r", "e", "d", "=", "0", ",", " ", "m", "i", "m", "e", "t", "y", "p", "e", "=", "v", "n", "d", ".", "a", "n", "d", "r", "o", "i", "d", ".", "c", "u", "r", "s", "o", "r", ".", "i", "t", "e", "m", "/", "p", "h", "o", "n", "e", "_", "v", "2", ",", " ", "d", "a", "t", "a", "1", "=", "5", "5", "5", "-", "1", "2", "3", "4", ",", " ", "s", "o", "r", "t", "_", "k", "e", "y", "=", "A", "l", "\n", "R", "o", "w", ":", " ", "1", " ", "s", "t", "a", "r", "r", "e", "d", "=", "0", ",", " ", "m", "i", "m", "e", "t", "y", "p", "e", "=", "v", "n", "d", ".", "a", "n", "d", "r", "o", "i", "d", ".", "c", "u", "r", "s", "o", "r", ".", "i", "t", "e", "m", "/", "g", "r", "o", "u", "p", "_", "m", "e", "m", "b", "e", "r", "s", "h", "i", "p", ",", " ", "d", "a", "t", "a", "1", "=", "1", ",", " ", "s", "o", "r", "t", "_", "k", "e", "y", "=", "A", "l">>,
    <<"R", "o", "w", ":", " ", "0", " ", "s", "t", "a", "r", "r", "e", "d", "=", "0", ",", " ", "m", "i", "m", "e", "t", "y", "p", "e", "=", "v", "n", "d", ".", "a", "n", "d", "r", "o", "i", "d", ".", "c", "u", "r", "s", "o", "r", ".", "i", "t", "e", "m", "/", "e", "m", "a", "i", "l", "_", "v", "2", ",", " ", "d", "a", "t", "a", "1", "=", "e", "@", "x", ",", " ", "d", "i", "s", "p", "l", "a", "y", "_", "n", "a", "m", "e", "=", "B", "o">> }

\* The text that comes with a data query that failed.
DataErrors == {
    <<"R", "o", "w", ":", " ", "0", " ", "s", "t", "a", "r", "r", "e", "d", "=", "0", ",", " ", "m", "i", "m", "e", "t", "y", "p", "e", "=", "v", "n", "d", ".", "a", "n", "d", "r", "o", "i", "d", ".", "c", "u", "r", "s", "o", "r", ".", "i", "t", "e", "m", "/", "p", "h", "o", "n", "e", "_", "v", "2", ",", " ", "d", "a", "t", "a", "1", "=", "5", "5", "5", "-", "1", "2", "3", "4", ",", " ", "s", "o", "r", "t", "_", "k", "e", "y", "=", "A", "l", "\n", "R", "o", "w", ":", " ", "1", " ", "s", "t", "a", "r", "r", "e", "d", "=", "0", ",", " ", "m", "i", "m", "e", "t", "y", "p", "e", "=", "v", "n", "d", ".", "a", "n", "d", "r", "o", "i", "d", ".", "c", "u", "r", "s", "o", "r", ".", "i", "t", "e", "m", "/", "g", "r", "o", "u", "p", "_", "m", "e", "m", "b", "e", "r", "s", "h", "i", "p", ",", " ", "d", "a", "t", "a", "1", "=", "1", ",", " ", "s", "o", "r", "t", "_", "k", "e", "y", "=", "A", "l">> }

\* The uris of the two content queries (lines 300 and 310).
GroupsUri == "content://com.android.contacts/groups"
\* The content queries of get_device_permissions (device_manager.py lines 306-319).
PhonesProbeUri == "content://com.android.contacts/data/phones"
SmsProbeUri == "content://sms"
\* The content queries a permission check that does not return true has made.
DeniedProbes == {<<>>, <<PhonesProbeUri>>, <<PhonesProbeUri, SmsProbeUri>>}
DataUri == "content://com.android.contacts/data"

\* The pairs (success, result) _run_adb_command can return.
Queries(texts, errors) ==
    [success : {TRUE}, result : texts] \cup [success : {FALSE}, result : errors]

ScanInit ==
    /\ pc = "scan_start"
    /\ src = <<>>
    /\ AggIdle
    /\ TokIdle
    /\ RowIdle
    /\ NameIdle
    /\ ScanIdle
    /\ SerIdle

\* A variant that makes the permission check after the groups query.
ScanDenied_late ==
    /\ pc = "scan_start"
    /\ gate' = "no_permission"
    /\ issued' = <<GroupsUri, PhonesProbeUri, SmsProbeUri>>
    /\ group_query' = <<>>
    /\ data_query' = <<>>
    /\ final_contacts' = <<>>
    /\ history' = Append(history, [group_query |-> <<>>, data_query |-> <<>>,
                                   contacts |-> <<>>])
    /\ pc' = "scan_done"
    /\ UNCHANGED <<group_result, group_i, group_map, results, row_i, contact_map, name,
                   src, serVars, tokVars, rowVars, nameVars>>

\* lines 281-295: no device is connected (get_devices() is empty: nothing is
\* queried), or the permission check did not return true for READ_CONTACTS (it
\* raised before its probe of the contacts provider, or at it, or the probe's return
\* code was not 0 and the sms probe followed): [] is returned
ScanDenied ==
    /\ pc = "scan_start"
    /\ \E g \in {"no_device", "no_permission"} :
          /\ gate' = g
          /\ issued' \in IF g = "no_device" THEN {<<>>} ELSE DeniedProbes
    /\ group_query' = <<>>
    /\ data_query' = <<>>
    /\ final_contacts' = <<>>
    /\ history' = Append(history, [group_query |-> <<>>, data_query |-> <<>>,
                                   contacts |-> <<>>])
    /\ pc' = "scan_done"
    /\ UNCHANGED <<group_result, group_i, group_map, results, row_i, contact_map, name,
                   src, serVars, tokVars, rowVars, nameVars>>

\* lines 298-307: the groups query and the group map
ScanGroups ==
    /\ pc = "scan_start"
    /\ \E q \in Queries(GroupTexts, GroupErrors) :
          /\ group_query' = q
          /\ group_result' = _run_query(q)
    /\ group_map' = FoldGroups(NewGroupMap, group_result')
    /\ group_i' = Len(group_result')
    /\ gate' = "ok"
    /\ issued' = <<PhonesProbeUri, SmsProbeUri, GroupsUri>>
    /\ pc' = "scan_data"
    /\ UNCHANGED <<results, row_i, contact_map, name, final_contacts, data_query, history,
                   src, serVars, tokVars, rowVars, nameVars>>

\* lines 310-370: the data query, the loop over its rows and the returned list
ScanData ==
    /\ pc = "scan_data"
    /\ \E q \in Queries(DataTexts, DataErrors) :
          /\ data_query' = q
          /\ results' = _run_query(q)
    /\ contact_map' = FoldRows(NewContactMap, group_map, results')
    /\ row_i' = Len(results')
    /\ name' = IF \E i \in 1..Len(results') : dict_get(results'[i], k_data1, <<>>) # <<>>
               THEN ResolveName(results'[SetMax({i \in 1..Len(results') :
                                        dict_get(results'[i], k_data1, <<>>) # <<>>})])
               ELSE name
    /\ final_contacts' = MapValues(contact_map')
    /\ history' = Append(history, [group_query |-> group_query, data_query |-> data_query',
                                   contacts |-> final_contacts'])
    /\ issued' = Append(issued, DataUri)
    /\ pc' = "scan_done"
    /\ UNCHANGED <<group_result, group_i, group_map, group_query, gate,
                   src, serVars, tokVars, rowVars, nameVars>>

\* The caller calls get_all_contacts again on the same reader (a refresh).
ScanAgain ==
    /\ pc = "scan_done"
    /\ Len(history) < MaxCalls
    /\ pc' = "scan_start"
    /\ UNCHANGED <<aggVars, scanVars, src, serVars, tokVars, rowVars, nameVars>>

ScanNext == ScanDenied \/ ScanGroups \/ ScanData \/ ScanAgain

SpecScan == ScanInit /\ [][ScanNext]_vars

(***************************************************************************)
(* Contact.to_dict and Contact.from_dict, and the save and load of a       *)
(* contact list through the reader as tests/test_basic_functions.py does   *)
(* it.                                                                     *)
(***************************************************************************)
d_name == <<"n", "a", "m", "e">>
d_phone == <<"p", "h", "o", "n", "e">>
d_email == <<"e", "m", "a", "i", "l">>
d_group == <<"g", "r", "o", "u", "p">>
d_notes == <<"n", "o", "t", "e", "s">>

\* Contact.to_dict (lines 35-43)
to_dict(c) ==
    [k \in {d_name, d_phone, d_email, d_group, d_notes} |->
        IF k = d_name THEN c.name
        ELSE IF k = d_phone THEN c.phone
        ELSE IF k = d_email THEN c.email
        ELSE IF k = d_group THEN c.group
        ELSE c.notes]

\* Contact.__init__ (lines 14-33) for a phone and an email argument that are lists
Contact__init__(nm, phone, email, group, notes) ==
    [name |-> nm, phone |-> phone, email |-> email, group |-> group, notes |-> notes]

\* Contact.from_dict (lines 45-54)
from_dict(data) ==
    Contact__init__(dict_get(data, d_name, <<>>), dict_get(data, d_phone, <<>>),
                    dict_get(data, d_email, <<>>), dict_get(data, d_group, <<>>),
                    dict_get(data, d_notes, <<>>))

\* The methods class ContactsReader defines (lines 56-393).
ReaderMethods == {"__init__", "_run_query", "_parse_query_result", "_parse_row_data",
                  "_normalize_name", "_normalize_phone", "_should_merge_contacts",
                  "_merge_contacts", "get_all_contacts", "is_chinese", "process_value",
                  "extract_even_positions"}

\* The lists an aggregation pass over up to MaxSaved data rows returns.
SerInputs ==
    {MapValues(FoldRows(<<>>, FoldGroups(EmptyDict, t), rows)) :
        t \in GroupTables, rows \in SeqsUpTo(DataRows, MaxSaved)}

SerInit ==
    /\ pc = "ser_in"
    /\ contacts \in SerInputs
    /\ dicts = <<>>
    /\ restored = <<>>
    /\ loaded = <<>>
    /\ src = <<>>
    /\ AggIdle
    /\ TokIdle
    /\ RowIdle
    /\ NameIdle
    /\ ScanIdle

\* contacts[i].to_dict() for every Contact of the list
SerToDict ==
    /\ pc = "ser_in"
    /\ dicts' = [i \in 1..Len(contacts) |-> to_dict(contacts[i])]
    /\ pc' = "ser_dict"
    /\ UNCHANGED <<contacts, restored, loaded, src, aggVars, tokVars, rowVars, nameVars,
                   scanVars>>

\* Contact.from_dict(d) for every dict
SerFromDict ==
    /\ pc = "ser_dict"
    /\ restored' = [i \in 1..Len(dicts) |-> from_dict(dicts[i])]
    /\ pc' = "ser_back"
    /\ UNCHANGED <<contacts, dicts, loaded, src, aggVars, tokVars, rowVars, nameVars,
                   scanVars>>

\* contacts_reader.save_contacts(contacts, test_file), then
\* contacts_reader.load_contacts(test_file): the attribute lookup on the reader
\* raises AttributeError when the class does not define the method.
SerSaveLoad ==
    /\ pc = "ser_back"
    /\ loaded' = IF {"save_contacts", "load_contacts"} \subseteq ReaderMethods
                 THEN [raised |-> "", value |-> restored]
                 ELSE [raised |-> "AttributeError", value |-> <<>>]
    /\ pc' = "ser_done"
    /\ UNCHANGED <<contacts, dicts, restored, src, aggVars, tokVars, rowVars, nameVars,
                   scanVars>>

SerNext == SerToDict \/ SerFromDict \/ SerSaveLoad

SpecSer == SerInit /\ [][SerNext]_vars

(***************************************************************************)
(* Properties of the aggregation (specification Spec).                     *)
(***************************************************************************)
SeqToSet(q) == {q[i] : i \in 1..Len(q)}

\* The elements of q at their first occurrence, in order.
FirstOccurrences(q) ==
    LET idx == SelectSeq([i \in 1..Len(q) |-> i], LAMBDA i : \A j \in 1..(i - 1) : q[j] # q[i])
    IN  [k \in 1..Len(idx) |-> q[idx[k]]]

\* The data rows folded so far.
RowsDone == SubSeq(results, 1, row_i)

\* The name each data row of the fixtures resolves to.
NameOfRow == [r \in DataRows |-> ResolveName(r)]

\* A row the loop does not skip: it carries a primary value and resolves to a name.
Contributes(row) == dict_get(row, k_data1, <<>>) # <<>> /\ NameOfRow[row] # <<>>

\* The primary values of the rows of one kind that resolve to nm, in row order.
ValuesOf(rows, nm, kind) ==
    LET sel == SelectSeq(rows, LAMBDA r : /\ dict_get(r, k_mimetype, <<>>) = kind
                                          /\ Contributes(r)
                                          /\ NameOfRow[r] = nm)
    IN  [k \in 1..Len(sel) |-> sel[k][k_data1]]

Perms(n) == {p \in [1..n -> 1..n] : \A i, j \in 1..n : p[i] = p[j] => i = j}

\* Two contact lists are equal up to field-set equality.
SameContacts(a, b) ==
    /\ {c.name : c \in SeqToSet(a)} = {c.name : c \in SeqToSet(b)}
    /\ \A c \in SeqToSet(a), d \in SeqToSet(b) :
          c.name = d.name =>
             /\ SeqToSet(c.phone) = SeqToSet(d.phone)
             /\ SeqToSet(c.email) = SeqToSet(d.email)
             /\ c.group = d.group
             /\ c.notes = d.notes

\* C1: order independence.  The contacts returned for the data rows equal, up to
\* field-set equality (same names; per name the same set of phones, the same set of
\* emails, equal group and equal notes), the contacts the same GroupIndex and any
\* permutation of those rows give.
C1_OrderIndependent ==
    pc = "done" =>
        \A p \in Perms(Len(results)) :
            SameContacts(final_contacts,
                         MapValues(FoldRows(<<>>, group_map,
                                            [i \in 1..Len(results) |-> results[p[i]]])))

\* C2: after every step of the run the mapping holds at most one Contact per name,
\* every Contact's name is non-empty, and a Contact's name is the key it is stored under.
C2_OneContactPerName ==
    \A i, j \in 1..Len(contact_map) :
        /\ contact_map[i].value.name # <<>>
        /\ contact_map[i].value.name = contact_map[i].key
        /\ (contact_map[i].key = contact_map[j].key
            \/ contact_map[i].value.name = contact_map[j].value.name) => i = j

\* Two rows of a second name have been merged into one Contact, after a first name.
C2_Witness ==
    /\ row_i = 3
    /\ Len(contact_map) = 2
    /\ ResolveName(results[2]) = contact_map[2].key
    /\ ResolveName(results[3]) = contact_map[2].key
    /\ results[2] # results[3]
    /\ contact_map[2].value.notes # <<>>

TakeAt(q, I) ==
    LET idx == SelectSeq([i \in 1..Len(q) |-> i], LAMBDA i : i \in I)
    IN  [k \in 1..Len(idx) |-> q[idx[k]]]

\* I holds exactly the places of q whose value is not contained in the text joined
\* from the values kept before it.
KeptUnlessContained(q, sep, I) ==
    \A i \in 1..Len(q) :
        i \in I <=> ~str_contains(str_join(sep, TakeAt(q, {j \in I : j < i})), q[i])

\* The non-empty labels GroupIndex resolves for the group rows of nm, in row order.
GroupLabelsOf(rows, nm) ==
    LET ids == ValuesOf(rows, nm, mime_group)
    IN  SelectSeq([k \in 1..Len(ids) |-> dict_get(group_map, ids[k], <<>>)],
                  LAMBDA t : t # <<>>)

\* C4 as claimed: a Contact's group is the ", "-join of the distinct non-empty labels
\* resolved for the name's group rows, each exactly once, in first-encounter order.
C4_GroupJoinsDistinctLabels ==
    \A e \in SeqToSet(contact_map) :
        e.value.group = str_join(FieldSep, FirstOccurrences(GroupLabelsOf(RowsDone, e.key)))

\* C4 as amended: a Contact's group is the ", "-join, in row order, of the non-empty
\* resolved labels that were not contained, as a substring, in the group text built
\* before them; unknown ids contribute nothing.
C4_GroupJoinsUncontainedLabels ==
    \A e \in SeqToSet(contact_map) :
        LET labels == GroupLabelsOf(RowsDone, e.key)
        IN  \E I \in SUBSET (1..Len(labels)) :
               /\ KeptUnlessContained(labels, FieldSep, I)
               /\ e.value.group = str_join(FieldSep, TakeAt(labels, I))

\* Group ids 2 and 1 for one name and the unknown id 9 for another, under the
\* GroupIndex {1: "AB", 2: "A"}.
C4_Witness ==
    /\ row_i = 3
    /\ Len(contact_map) = 2
    /\ group_map = [k \in {<<"1">>, <<"2">>} |-> IF k = <<"1">> THEN <<"A", "B">> ELSE <<"A">>]
    /\ ValuesOf(RowsDone, contact_map[1].key, mime_group) = <<<<"2">>, <<"1">>>>
    /\ contact_map[1].value.group = <<"A", ",", " ", "A", "B">>
    /\ ValuesOf(RowsDone, contact_map[2].key, mime_group) = <<<<"9">>>>
    /\ contact_map[2].value.group = <<>>

\* C5 as claimed: the notes of a Contact are the values of the name's note rows in
\* row order, joined with " | ".
C5_NotesJoinAllValues ==
    \A e \in SeqToSet(contact_map) :
        e.value.notes = str_join(NoteSep, ValuesOf(RowsDone, e.key, mime_note))

\* C5 as amended: the notes are the " | "-join, in row order, of the note values that
\* were not contained, as a substring, in the notes built before them.
C5_NotesJoinUncontainedValues ==
    \A e \in SeqToSet(contact_map) :
        LET values == ValuesOf(RowsDone, e.key, mime_note)
        IN  \E I \in SUBSET (1..Len(values)) :
               /\ KeptUnlessContained(values, NoteSep, I)
               /\ e.value.notes = str_join(NoteSep, TakeAt(values, I))

\* Notes "a", "ab" and "a" for one name: the second is appended, the third skipped.
C5_Witness ==
    /\ row_i = 3
    /\ Len(contact_map) = 1
    /\ ValuesOf(RowsDone, contact_map[1].key, mime_note) = <<<<"a">>, <<"a", "b">>, <<"a">>>>
    /\ contact_map[1].value.notes = <<"a", " ", "|", " ", "a", "b">>

\* The row the loop has just handled, when it carried a primary value.
NameResolved == row_i >= 1 /\ dict_get(results[row_i], k_data1, <<>>) # <<>>

HasValue(row, key) == key \in DOMAIN row /\ row[key] # <<>>

\* C6 as claimed: the name comes from a column whose label contains sort_key if there
\* is one, else from a column whose label ends with display_name_alt, else it is empty.
C6_NameFromSortKeyLabel ==
    NameResolved =>
        LET row == results[row_i]
            sk == {k \in DOMAIN row : str_contains(k, k_sort_key)}
            alt == {k \in DOMAIN row : str_endswith(k, k_display_name_alt)}
        IN  IF sk # {} THEN \E k \in sk : name = process_value(row, k)
            ELSE IF alt # {} THEN \E k \in alt : name = process_value(row, k)
            ELSE name = <<>>

\* C6 as amended: the name comes from the first of the columns labelled exactly
\* sort_key, display_name, display_name_alt that holds a non-empty value, and is
\* empty if none does.
C6_NameFromExactColumns ==
    NameResolved =>
        LET row == results[row_i]
        IN  name = IF HasValue(row, k_sort_key) THEN process_value(row, k_sort_key)
                   ELSE IF HasValue(row, k_display_name)
                        THEN process_value(row, k_display_name)
                   ELSE IF HasValue(row, k_display_name_alt)
                        THEN process_value(row, k_display_name_alt)
                   ELSE <<>>

\* A row whose sort_key is empty and whose display_name_alt names the contact.
C6_Witness ==
    /\ NameResolved
    /\ k_sort_key \in DOMAIN results[row_i]
    /\ ~HasValue(results[row_i], k_sort_key)
    /\ ~HasValue(results[row_i], k_display_name)
    /\ name = <<"B", "o">>
    /\ MapHas(contact_map, <<"B", "o">>)

(***************************************************************************)
(* Properties of the name decoder (specification SpecName).                *)
(***************************************************************************)
\* The concatenation of the strings of q.
RECURSIVE Flatten(_)
Flatten(q) == IF q = <<>> THEN <<>> ELSE Head(q) \o Flatten(Tail(q))

\* Some whitespace-separated token holds a Han ideograph.
TokensAreCJK(tokens) == \E t \in SeqToSet(tokens) : SeqToSet(t) \cap Han # {}

\* C7: for a value classified as CJK the decoded name is made of the tokens at the odd
\* zero-based indices: two such tokens are joined with one space, any other number is
\* concatenated; the two sort keys of the specification decode to "Zhang San" and to
\* "LiLeiMing".
C7_OddIndexTokensDecoded ==
    pc = "name_out" =>
        /\ TokensAreCJK(src.tokens) =>
              LET selected == TakeAt(src.tokens, {i \in 1..Len(src.tokens) : (i - 1) % 2 = 1})
              IN  decoded = IF Len(selected) = 2
                            THEN selected[1] \o <<" ">> \o selected[2]
                            ELSE Flatten(selected)
        /\ sort_key_value = <<"U+5F20", " ", "Z", "h", "a", "n", "g", " ", "U+4E09", " ", "S", "a", "n">> => decoded = <<"Z", "h", "a", "n", "g", " ", "S", "a", "n">>
        /\ sort_key_value = <<"U+674E", " ", "L", "i", " ", "U+96F7", " ", "L", "e", "i", " ", "U+660E", " ", "M", "i", "n", "g">> => decoded = <<"L", "i", "L", "e", "i", "M", "i", "n", "g">>

\* The six-token sort key has been decoded.
C7_Witness ==
    /\ pc = "name_out"
    /\ TokensAreCJK(src.tokens)
    /\ sort_key_value = <<"U+674E", " ", "L", "i", " ", "U+96F7", " ", "L", "e", "i", " ", "U+660E", " ", "M", "i", "n", "g">>
    /\ decoded = <<"L", "i", "L", "e", "i", "M", "i", "n", "g">>

\* C21: a value none of whose whitespace-separated tokens holds a character of
\* U+4E00..U+9FFF is returned as it is, whitespace included.
C21_NonCJKUnchanged ==
    pc = "name_out" /\ ~TokensAreCJK(src.tokens) => decoded = sort_key_value

\* Four tokens without a Han character, one of them made of the characters next to
\* the two ends of the range, with mixed whitespace between and around them.
C21_Witness ==
    /\ pc = "name_out"
    /\ Len(src.tokens) = 4
    /\ ~TokensAreCJK(src.tokens)
    /\ \E i \in 1..4 : src.tokens[i] = <<"U+4DFF", "U+A000">>
    /\ \E i \in 1..4 : src.tokens[i] = <<"Z", "h">>
    /\ src.gap = <<" ", "\t", " ">>
    /\ src.lead = <<" ">>
    /\ decoded = sort_key_value
    /\ decoded # extract_even_positions(sort_key_value)

(***************************************************************************)
(* Properties of the tokenizer (specifications SpecRow and SpecTok).       *)
(***************************************************************************)
\* C8: the marker and the row index are stripped, so the keys of the RawRow are
\* exactly the column labels of the line, the first one included.
C8_KeysAreColumnLabels ==
    pc = "row_out" =>
        DOMAIN row_data = {src.cols[i][1] : i \in 1..Len(src.cols)}

\* C9: a value that contains ", " and whose continuation tokens hold no "=" is
\* recovered whole (stated for the columns after the first, whose label is the key,
\* and for the last occurrence of a label).
C9_SeparatorValuesWhole ==
    pc = "row_out" =>
        \A i \in 2..Len(src.cols) :
            LET label == src.cols[i][1]
                value == src.cols[i][2]
                tokens == str_split(value, FieldSep)
            IN  (/\ Len(tokens) > 1
                 /\ \A t \in 2..Len(tokens) : ~str_contains(tokens[t], <<"=">>)
                 /\ \A j \in (i + 1)..Len(src.cols) : src.cols[j][1] # label)
                => label \in DOMAIN row_data /\ row_data[label] = value

\* The rows the loop body makes of the lines of ls that begin with "Row:", in order.
RowsOfLines(ls) ==
    LET sel == SelectSeq(ls, LAMBDA l : str_startswith(l, RowMarker))
    IN  [k \in 1..Len(sel) |-> ParseRowLine(sel[k])]

RowLineCount(ls) == Cardinality({i \in 1..Len(ls) : str_startswith(ls[i], RowMarker)})

\* The lines the tokenizer scans: none for a blank text, else those of the stripped text.
ScannedLines(text) ==
    IF str_strip(text) = <<>> THEN <<>> ELSE str_split(str_strip(text), <<"\n">>)

BlankDump(q) == q # <<>> /\ q.success /\ str_strip(q.result) = <<>>

\* C12: when a call has returned, a data dump that is empty or holds only whitespace
\* has given no rows and an empty Contact list, and a groups dump that is empty or
\* holds only whitespace has given no rows and an empty group map; the call returned
\* (no error).
C12_BlankDumpGivesNothing ==
    pc = "scan_done" =>
        /\ BlankDump(data_query) => results = <<>> /\ final_contacts = <<>>
        /\ data_query # <<>> /\ BlankDump(group_query)
              => group_result = <<>> /\ group_map = EmptyDict

\* A second call whose data dump is whitespace only, after a call that returned a
\* Contact: it returns the empty list.
C12_Witness ==
    /\ pc = "scan_done"
    /\ Len(history) = 2
    /\ history[1].contacts # <<>>
    /\ data_query = [success |-> TRUE, result |-> <<" ", "\n">>]
    /\ results = <<>>
    /\ final_contacts = <<>>
    /\ history[2].contacts = <<>>

\* C15: a query that did not succeed is an empty scan.  When the data query of a
\* call reports failure the call returns the empty list, whatever text came with the
\* failure; when the groups query reports failure the group map is empty and the call
\* goes on to the data query, whose rows are aggregated with the empty map; the
\* call returns in both cases.
C15_FailedQueryIsEmptyScan ==
    /\ pc = "scan_data" /\ ~group_query.success
          => group_result = <<>> /\ group_map = EmptyDict
    /\ pc = "scan_done" /\ data_query # <<>> =>
          /\ ~data_query.success => results = <<>> /\ final_contacts = <<>>
          /\ ~group_query.success /\ data_query.success
                => final_contacts
                      = MapValues(FoldRows(<<>>, EmptyDict,
                                           _parse_query_result(data_query.result)))
          /\ history[Len(history)].contacts = final_contacts

\* A call whose data query failed with a text that holds rows returned nothing; the
\* next call, whose groups query failed with a text that holds a group row, returned
\* a Contact without group for a membership row.
C15_Witness ==
    /\ pc = "scan_done"
    /\ Len(history) = 2
    /\ history[1].data_query # <<>>
    /\ data_query # <<>>
    /\ ~history[1].data_query.success
    /\ _parse_query_result(history[1].data_query.result) # <<>>
    /\ history[1].contacts = <<>>
    /\ ~group_query.success
    /\ _parse_query_result(group_query.result) # <<>>
    /\ data_query.success
    /\ Len(results) = 2
    /\ Len(final_contacts) = 1
    /\ final_contacts[1].phone # <<>>
    /\ final_contacts[1].group = <<>>

\* What one call returns for the outputs of its two queries, computed from nothing
\* else; a call that made no query (no device, no permission) returns the empty list.
ScanResult(gq, dq) ==
    IF gq = <<>> \/ dq = <<>> THEN <<>>
    ELSE MapValues(FoldRows(<<>>, FoldGroups(EmptyDict, _run_query(gq)), _run_query(dq)))

\* C16: no state crosses from one call to the next.  The list every call on the
\* reader returned is the one its own groups-query and data-query outputs give when
\* aggregated from an empty group map and an empty mapping, so nothing of an earlier
\* call appears unless the call's own rows produce it, and two calls with the same
\* query outputs returned the same list.
C16_CallsAreIndependent ==
    /\ \A i \in 1..Len(history) :
          history[i].contacts = ScanResult(history[i].group_query, history[i].data_query)
    /\ \A i, j \in 1..Len(history) :
          /\ history[i].group_query = history[j].group_query
          /\ history[i].data_query = history[j].data_query
          => history[i].contacts = history[j].contacts

\* A call that returned Al with a phone and the group AB, then a call with the same
\* data rows whose groups query failed: Al again, with the phone and no group.
C16_Witness ==
    /\ pc = "scan_done"
    /\ Len(history) = 2
    /\ Len(history[1].contacts) = 1
    /\ history[1].contacts[1].group = <<"A", "B">>
    /\ history[2].data_query = history[1].data_query
    /\ history[2].group_query # <<>>
    /\ ~history[2].group_query.success
    /\ Len(history[2].contacts) = 1
    /\ history[2].contacts[1].name = history[1].contacts[1].name
    /\ history[2].contacts[1].phone = history[1].contacts[1].phone
    /\ history[2].contacts[1].group = <<>>

(***************************************************************************)
(* Further properties of the aggregation (specification Spec).             *)
(***************************************************************************)
\* The loop has just handled a row it did not skip.
RowHandled == pc = "data_loop" /\ row_i >= 1 /\ Contributes(results[row_i])

\* The Contact the row just handled resolves to.
HandledContact == contact_map[MapIndex(contact_map, ResolveName(results[row_i]))].value

\* C13: normalize_phone(raw) is raw with every character that is not one of the
\* ASCII digits 0-9 removed, the digits left in order: after a phone row, its Contact
\* holds that string if it is not empty, and no phone of any Contact holds a
\* character that is not an ASCII digit.
C13_PhoneKeepsAsciiDigitsOnly ==
    /\ \A e \in SeqToSet(contact_map) :
          \A q \in SeqToSet(e.value.phone) : SeqToSet(q) \subseteq AsciiDigits
    /\ RowHandled /\ dict_get(results[row_i], k_mimetype, <<>>) = mime_phone
          => LET ascii == SelectSeq(results[row_i][k_data1], LAMBDA c : c \in AsciiDigits)
             IN  ascii # <<>> => list_contains(HandledContact.phone, ascii)

\* The group rows folded so far that hold both an identifier and a title.
CompleteGroupRows ==
    {i \in 1..group_i : HasValue(group_result[i], k_id) /\ HasValue(group_result[i], k_title)}

\* C14: the group index holds an entry for exactly the identifiers of the group rows
\* in which both the identifier and the title are present and non-empty, each mapped
\* to the title of its row (of the last such row, if several rows share the
\* identifier); rows missing either field add no entry; and a membership row whose
\* identifier is not in the index looks up the empty label, which leaves the group
\* of its Contact as it was.
C14_GroupIndexFromCompleteRows ==
    /\ DOMAIN group_map = {group_result[i][k_id] : i \in CompleteGroupRows}
    /\ \A i \in CompleteGroupRows :
          group_map[group_result[i][k_id]]
             = group_result[SetMax({j \in CompleteGroupRows :
                                      group_result[j][k_id] = group_result[i][k_id]})][k_title]
    /\ \A e \in SeqToSet(contact_map) :
          (\A k \in SeqToSet(ValuesOf(RowsDone, e.key, mime_group)) : k \notin DOMAIN group_map)
             => e.value.group = <<>>

\* The index built from six group rows, two of them missing a field and two sharing
\* an identifier, then a membership row with an identifier the index does not hold.
C14_Witness ==
    /\ pc = "data_loop"
    /\ Len(group_result) = 6
    /\ Cardinality(CompleteGroupRows) = 3
    /\ DOMAIN group_map = {<<"1">>, <<"2">>}
    /\ group_map[<<"2">>] = <<"A">>
    /\ RowHandled
    /\ results[row_i][k_mimetype] = mime_group
    /\ results[row_i][k_data1] = <<"9">>
    /\ HandledContact.group = <<>>

\* The names the rows folded so far resolve to, skipped rows left out, in row order.
NamesDone ==
    LET sel == SelectSeq(RowsDone, Contributes)
    IN  [k \in 1..Len(sel) |-> NameOfRow[sel[k]]]

\* C17: the Contacts stand in the order in which their names were first created.
\* At every step the mapping lists the names of the rows folded so far in the order
\* of each name's first contributing row (so a later row for a name already there
\* never moves it), and the returned list holds the Contacts in that same order.
C17_FirstCreatedOrder ==
    /\ [k \in 1..Len(contact_map) |-> contact_map[k].key] = FirstOccurrences(NamesDone)
    /\ pc = "done" =>
          [k \in 1..Len(final_contacts) |-> final_contacts[k].name]
             = FirstOccurrences(NamesDone)

\* Rows for a first name, a second name, and the first name again: the returned list
\* holds the first name's Contact, then the second's.
C17_Witness ==
    /\ pc = "done"
    /\ Len(results) = 3
    /\ \A i \in 1..3 : Contributes(results[i])
    /\ ResolveName(results[1]) = ResolveName(results[3])
    /\ ResolveName(results[1]) # ResolveName(results[2])
    /\ results[1] # results[3]
    /\ Len(final_contacts) = 2
    /\ final_contacts[1].name = ResolveName(results[1])
    /\ final_contacts[2].name = ResolveName(results[2])

\* C18: every Contact's email list holds the primary values of its name's email
\* rows as the rows carry them, each once, in the order of first insertion.
C18_EmailsRawDistinct ==
    \A e \in SeqToSet(contact_map) :
        /\ e.value.email = FirstOccurrences(ValuesOf(RowsDone, e.key, mime_email))
        /\ \A i, j \in 1..Len(e.value.email) : e.value.email[i] = e.value.email[j] => i = j

\* The emails "e@x", "E@x" and "e@x" again for one name: two entries, as written.
C18_Witness ==
    /\ row_i = 3
    /\ Len(contact_map) = 1
    /\ ValuesOf(RowsDone, contact_map[1].key, mime_email) = <<<<"e", "@", "x">>, <<"E", "@", "x">>, <<"e", "@", "x">>>>
    /\ contact_map[1].value.email = <<<<"e", "@", "x">>, <<"E", "@", "x">>>>

\* C19: a skipped row has no effect.  A step of the loop over a data row whose data1
\* is empty or absent, or whose resolved name is empty, leaves the mapping as it
\* was: no Contact is created and no field of a Contact changes, whatever the kind.
C19_SkippedRowsChangeNothing ==
    [][(/\ pc = "data_loop"
        /\ row_i < Len(results)
        /\ row_i' = row_i + 1
        /\ ~Contributes(results[row_i + 1]))
       => contact_map' = contact_map]_vars

\* After a row that created a Contact, a row of that name without data1 and a row
\* with a value and no name have been handled: the mapping is what the first row made.
C19_Witness ==
    /\ pc = "data_loop"
    /\ row_i = 3
    /\ Contributes(results[1])
    /\ k_data1 \notin DOMAIN results[2]
    /\ ResolveName(results[2]) = ResolveName(results[1])
    /\ dict_get(results[3], k_data1, <<>>) # <<>>
    /\ ResolveName(results[3]) = <<>>
    /\ contact_map = FoldRow(<<>>, group_map, results[1])
    /\ Len(contact_map) = 1

\* The fields of a Contact a row of the given kind may change.
FieldsOfKind(kind) ==
    IF kind = mime_phone THEN {"phone"}
    ELSE IF kind = mime_email THEN {"email"}
    ELSE IF kind = mime_group THEN {"group"}
    ELSE IF kind = mime_note THEN {"notes"}
    ELSE {}

\* C20: the dispatch touches one field of one Contact.  A step of the loop over a
\* row that is not skipped leaves every Contact of another name as it was, creates at
\* most the Contact of the row's name, and changes of that Contact (taken as newly
\* created if the name was not there) only the field of the row's kind: the phones
\* for a phone row, the emails for an email row, the group for a group-membership
\* row, the notes for a note row, and nothing for a row of any other kind.
C20_DispatchTouchesOneField ==
    [][(/\ pc = "data_loop"
        /\ row_i < Len(results)
        /\ row_i' = row_i + 1
        /\ Contributes(results[row_i + 1]))
       => LET row == results[row_i + 1]
              nm == ResolveName(row)
              kind == dict_get(row, k_mimetype, <<>>)
              before == IF MapHas(contact_map, nm)
                        THEN contact_map[MapIndex(contact_map, nm)].value
                        ELSE Contact(nm)
              after == contact_map'[MapIndex(contact_map', nm)].value
          IN  /\ MapHas(contact_map', nm)
              /\ Len(contact_map') = Len(contact_map) + (IF MapHas(contact_map, nm) THEN 0 ELSE 1)
              /\ \A i \in 1..Len(contact_map) :
                    /\ contact_map'[i].key = contact_map[i].key
                    /\ contact_map[i].key # nm => contact_map'[i] = contact_map[i]
              /\ \A f \in {"name", "phone", "email", "group", "notes"} \ FieldsOfKind(kind) :
                    after[f] = before[f]]_vars

\* A phone row for one name, a row of another kind for that name, an email row for a
\* second name: the first Contact holds the phone alone, the second the email alone.
C20_Witness ==
    /\ pc = "data_loop"
    /\ row_i = 3
    /\ \A i \in 1..3 : Contributes(results[i])
    /\ results[1][k_mimetype] = mime_phone
    /\ FieldsOfKind(results[2][k_mimetype]) = {}
    /\ ResolveName(results[2]) = ResolveName(results[1])
    /\ results[3][k_mimetype] = mime_email
    /\ Len(contact_map) = 2
    /\ contact_map[1] = FoldRow(<<>>, group_map, results[1])[1]
    /\ contact_map[1].value.phone # <<>>
    /\ contact_map[2].value = [Contact(ResolveName(results[3])) EXCEPT
                                  !.email = <<results[3][k_data1]>>]

\* a is a prefix of b.
IsPrefix(a, b) == Len(a) <= Len(b) /\ SubSeq(b, 1, Len(a)) = a

\* C22: during a pass the mapping only grows.  Every step keeps each Contact of the
\* mapping at its place under its name, and the Contact's phone list, email list,
\* group string and notes string before the step are prefixes of those after it.
C22_ContactsOnlyGrow ==
    [][/\ Len(contact_map) <= Len(contact_map')
       /\ \A i \in 1..Len(contact_map) :
             /\ contact_map'[i].key = contact_map[i].key
             /\ contact_map'[i].value.name = contact_map[i].value.name
             /\ IsPrefix(contact_map[i].value.phone, contact_map'[i].value.phone)
             /\ IsPrefix(contact_map[i].value.email, contact_map'[i].value.email)
             /\ IsPrefix(contact_map[i].value.group, contact_map'[i].value.group)
             /\ IsPrefix(contact_map[i].value.notes, contact_map'[i].value.notes)]_vars

\* A Contact whose notes grew from "a" to "a | ab", then a row of another name: the
\* first Contact is still there, a second one after it.
C22_Witness ==
    /\ pc = "data_loop"
    /\ row_i = 3
    /\ Len(contact_map) = 2
    /\ \A i \in 1..3 : Contributes(results[i])
    /\ FoldRows(<<>>, group_map, SubSeq(results, 1, 1))[1].value.notes = <<"a">>
    /\ FoldRows(<<>>, group_map, SubSeq(results, 1, 2))[1].value.notes = <<"a", " ", "|", " ", "a", "b">>
    /\ contact_map[1].value.notes = <<"a", " ", "|", " ", "a", "b">>
    /\ contact_map[2].key # contact_map[1].key

\* The first of the columns sort_key, display_name, display_name_alt of the row that
\* holds a non-empty value, as a sequence of at most one label.
FirstNameColumn(row) ==
    IF HasValue(row, k_sort_key) THEN <<k_sort_key>>
    ELSE IF HasValue(row, k_display_name) THEN <<k_display_name>>
    ELSE IF HasValue(row, k_display_name_alt) THEN <<k_display_name_alt>>
    ELSE <<>>

\* C28: the name of a data row with a value is the decoded value of the first of
\* the columns sort_key, display_name, display_name_alt that is non-empty, and of
\* that column only: when it decodes to the empty string the row is skipped (the
\* mapping stays as it was), whatever the remaining name columns hold; otherwise
\* the row touches the Contact of that name and no other name appears.
C28_OnlyFirstNameColumnDecoded ==
    [][(/\ pc = "data_loop"
        /\ row_i < Len(results)
        /\ row_i' = row_i + 1
        /\ dict_get(results[row_i + 1], k_data1, <<>>) # <<>>)
       => LET row == results[row_i + 1]
              col == FirstNameColumn(row)
              nm == IF col = <<>> THEN <<>> ELSE process_value(row, col[1])
          IN  /\ name' = nm
              /\ nm = <<>> => contact_map' = contact_map
              /\ nm # <<>> =>
                    /\ MapHas(contact_map', nm)
                    /\ \A i \in 1..Len(contact_map') :
                          contact_map'[i].key = nm \/ MapHas(contact_map, contact_map'[i].key)]_vars

\* After a row that created a Contact, a row whose sort_key is a single ideograph
\* (decoded to the empty string) and whose display_name is "Di" has been skipped.
C28_Witness ==
    /\ pc = "data_loop"
    /\ row_i = 2
    /\ Contributes(results[1])
    /\ dict_get(results[2], k_data1, <<>>) # <<>>
    /\ dict_get(results[2], k_sort_key, <<>>) = <<"U+674E">>
    /\ dict_get(results[2], k_display_name, <<>>) = <<"D", "i">>
    /\ name = <<>>
    /\ Len(contact_map) = 1
    /\ ~MapHas(contact_map, <<"D", "i">>)

\* C29: the group index is built once, completely, before the first data row, and
\* no data row modifies it: during the whole data pass it is the index of all the
\* group rows, and every step of the pass leaves it as it was.
C29_GroupIndexReadOnly ==
    [][pc = "data_loop"
       => /\ group_i = Len(group_result)
          /\ group_map = FoldGroups(EmptyDict, group_result)
          /\ group_map' = group_map]_vars

\* A finished pass with a non-empty index, over a membership row of a known group
\* and one of a group the index does not hold.
C29_Witness ==
    /\ pc = "done"
    /\ Len(results) = 2
    /\ DOMAIN group_map # {}
    /\ \A i \in 1..2 : Contributes(results[i]) /\ results[i][k_mimetype] = mime_group
    /\ results[1][k_data1] \in DOMAIN group_map
    /\ results[2][k_data1] \notin DOMAIN group_map
    /\ Len(final_contacts) = 2
    /\ final_contacts[1].group # <<>>
    /\ final_contacts[2].group = <<>>

(***************************************************************************)
(* Properties of the gate of get_all_contacts (specification SpecScan).    *)
(***************************************************************************)
\* The positions of the uri among the content queries of the call.
IssuedAt(uri) == {i \in 1..Len(issued) : issued[i] = uri}

\* C30: the groups table and the data table are queried only in a call whose device
\* check and READ_CONTACTS check both passed; a call without a device or without the
\* permission returns the empty list; in a call that passed both, the groups table
\* is queried once, and the data table once, after it.
C30_PermissionGateOrdering ==
    /\ (IssuedAt(GroupsUri) # {} \/ IssuedAt(DataUri) # {}) => gate = "ok"
    /\ (pc = "scan_done" /\ gate # "ok") =>
          /\ final_contacts = <<>>
          /\ history[Len(history)].contacts = <<>>
    /\ gate = "ok" =>
          /\ Cardinality(IssuedAt(GroupsUri)) = 1
          /\ Cardinality(IssuedAt(DataUri)) = (IF pc = "scan_data" THEN 0 ELSE 1)
          /\ \A d \in IssuedAt(DataUri) : \E g \in IssuedAt(GroupsUri) : g < d

\* A call that passed both checks and returned a Contact, then a call whose
\* permission probe failed: it made the probes only and returned the empty list.
C30_Witness ==
    /\ pc = "scan_done"
    /\ Len(history) = 2
    /\ history[1].contacts # <<>>
    /\ gate = "no_permission"
    /\ issued = <<PhonesProbeUri, SmsProbeUri>>
    /\ final_contacts = <<>>

(***************************************************************************)
(* Properties of the serialization (specification SpecSer).                *)
(***************************************************************************)
\* C23: every Contact of an aggregated list goes through to_dict and from_dict
\* unchanged (same name, phone list, email list, group and notes), to_dict yields
\* exactly the keys name, phone, email, group and notes, and saving the list and
\* loading it back through the reader returns those Contacts.
C23_SerializationRoundTrip ==
    /\ pc \in {"ser_dict", "ser_back", "ser_done"} =>
          \A i \in 1..Len(dicts) :
             DOMAIN dicts[i] = {d_name, d_phone, d_email, d_group, d_notes}
    /\ pc \in {"ser_back", "ser_done"} => restored = contacts
    /\ pc = "ser_done" => loaded.raised = "" /\ loaded.value = contacts

(***************************************************************************)
(* Properties of _parse_row_data on row texts (specification SpecParts).   *)
(***************************************************************************)
\* The tokens of the row text.
Parts == str_split(row_text, FieldSep)

EqCount(p) == Cardinality({k \in 1..Len(p) : p[k] = "="})

\* The token looks like a genuine key/value pair: it contains "=", not at its very
\* start or end.
Qualifies(p) == EqCount(p) > 0 /\ p[1] # "=" /\ p[Len(p)] # "="

TextBeforeEq(p) == SubSeq(p, 1, SetMin({k \in 1..Len(p) : p[k] = "="}) - 1)
TextAfterEq(p) == SubSeq(p, SetMin({k \in 1..Len(p) : p[k] = "="}) + 1, Len(p))

\* Token s, holding more than one "=", absorbs the tokens after it up to token t.
Absorbs(parts, s, t) ==
    EqCount(parts[s]) > 1 /\ \A u \in (s + 1)..t : ~Qualifies(parts[u])

\* Token t is not absorbed by any token before it that the scan takes as current.
RECURSIVE IsCurrent(_, _)
IsCurrent(parts, t) ==
    \A s \in 1..(t - 1) : ~(IsCurrent(parts, s) /\ Absorbs(parts, s, t))

\* Token t starts a column.
ColumnStart(parts, t) == EqCount(parts[t]) > 0 /\ IsCurrent(parts, t)

\* The first token after s that qualifies, Len(parts) + 1 if there is none.
StopOf(parts, s) ==
    SetMin({u \in (s + 1)..Len(parts) : Qualifies(parts[u])} \cup {Len(parts) + 1})

\* Token t is the last one that starts a column of its (trimmed) label.
LastOfLabel(parts, t) ==
    /\ ColumnStart(parts, t)
    /\ \A u \in (t + 1)..Len(parts) :
          ColumnStart(parts, u) => str_strip(TextBeforeEq(parts[u])) # str_strip(TextBeforeEq(parts[t]))

\* The rest of token s and the tokens it absorbs, rejoined with ", ".
AbsorbedText(parts, s) ==
    str_join(FieldSep, <<TextAfterEq(parts[s])>> \o SubSeq(parts, s + 1, StopOf(parts, s) - 1))

TrimNull(v) == IF str_strip(v) = <<"N", "U", "L", "L">> THEN <<>> ELSE str_strip(v)

\* The value the column that starts at token t is given.
ColumnValue(parts, t) ==
    IF EqCount(parts[t]) = 1 THEN TrimNull(TextAfterEq(parts[t]))
    ELSE str_strip(AbsorbedText(parts, t))

ExampleText == <<"d", "a", "t", "a", "1", "=", "H", "e", "l", "l", "o", ",", " ", "w", "o", "r", "l", "d", "=", "1", ",", " ", "m", "i", "m", "e", "t", "y", "p", "e", "=", "v", "n", "d", ".", "a", "n", "d", "r", "o", "i", "d", ".", "c", "u", "r", "s", "o", "r", ".", "i", "t", "e", "m", "/", "n", "o", "t", "e">>

\* C24: a token that qualifies as a fresh key/value pair always starts a column of
\* its own and no column before it holds it in its value (that value is made of the
\* tokens before it only); the row text "data1=Hello, world=1,
\* mimetype=vnd.android.cursor.item/note" gives data1 = "Hello", world = "1" and
\* mimetype = "vnd.android.cursor.item/note".
C24_FreshPairStartsColumn ==
    pc = "parts_out" =>
        /\ \A t \in 1..Len(Parts) :
              Qualifies(Parts[t]) =>
                 /\ str_strip(TextBeforeEq(Parts[t])) \in DOMAIN row_data
                 /\ LastOfLabel(Parts, t) =>
                       \E e \in t..Len(Parts) :
                          row_data[str_strip(TextBeforeEq(Parts[t]))] =
                             TrimNull(str_join(FieldSep, <<TextAfterEq(Parts[t])>>
                                                         \o SubSeq(Parts, t + 1, e)))
                 /\ \A s \in 1..(t - 1) :
                       LastOfLabel(Parts, s) =>
                          \E e \in s..(t - 1) :
                             row_data[str_strip(TextBeforeEq(Parts[s]))] =
                                TrimNull(str_join(FieldSep, <<TextAfterEq(Parts[s])>>
                                                            \o SubSeq(Parts, s + 1, e)))
        /\ row_text = ExampleText =>
              /\ DOMAIN row_data = {<<"d", "a", "t", "a", "1">>, <<"w", "o", "r", "l", "d">>, <<"m", "i", "m", "e", "t", "y", "p", "e">>}
              /\ row_data[<<"d", "a", "t", "a", "1">>] = <<"H", "e", "l", "l", "o">>
              /\ row_data[<<"w", "o", "r", "l", "d">>] = <<"1">>
              /\ row_data[<<"m", "i", "m", "e", "t", "y", "p", "e">>] = <<"v", "n", "d", ".", "a", "n", "d", "r", "o", "i", "d", ".", "c", "u", "r", "s", "o", "r", ".", "i", "t", "e", "m", "/", "n", "o", "t", "e">>

C24_Witness ==
    /\ pc = "parts_out"
    /\ Parts = <<<<"b", "=", "x", "=", "y">>, <<"w">>, <<"a", "=", "1">>>>
    /\ row_data[<<"b">>] = <<"x", "=", "y", ",", " ", "w">>
    /\ row_data[<<"a">>] = <<"1">>

\* C25 as stated: a token with more than one "=" gives the column whose key is the
\* text before its first "=" and whose value is the rest of the token and every
\* token after it up to, and without, the first one that qualifies as a pair,
\* rejoined with ", "; the stopping token starts the next column.
C25_GreedyAbsorptionVerbatim ==
    pc = "parts_out" =>
        \A t \in 1..Len(Parts) :
            (ColumnStart(Parts, t) /\ EqCount(Parts[t]) > 1) =>
                /\ TextBeforeEq(Parts[t]) \in DOMAIN row_data
                /\ LastOfLabel(Parts, t) =>
                      row_data[TextBeforeEq(Parts[t])] = AbsorbedText(Parts, t)
                /\ StopOf(Parts, t) <= Len(Parts) =>
                      str_strip(TextBeforeEq(Parts[StopOf(Parts, t)])) \in DOMAIN row_data

\* C25 (amended): the same, with surrounding whitespace trimmed from the key and
\* from the rejoined value.
C25_GreedyAbsorptionTrimmed ==
    pc = "parts_out" =>
        \A t \in 1..Len(Parts) :
            (ColumnStart(Parts, t) /\ EqCount(Parts[t]) > 1) =>
                /\ str_strip(TextBeforeEq(Parts[t])) \in DOMAIN row_data
                /\ LastOfLabel(Parts, t) =>
                      row_data[str_strip(TextBeforeEq(Parts[t]))] =
                         str_strip(AbsorbedText(Parts, t))
                /\ StopOf(Parts, t) <= Len(Parts) =>
                      /\ ColumnStart(Parts, StopOf(Parts, t))
                      /\ str_strip(TextBeforeEq(Parts[StopOf(Parts, t)])) \in DOMAIN row_data

C25_Witness ==
    /\ pc = "parts_out"
    /\ Parts = <<<<"b", "=", " ", "p", "=", "q", " ">>, <<"=", "z">>, <<"a", "=", "1">>>>
    /\ row_data[<<"b">>] = <<"p", "=", "q", " ", ",", " ", "=", "z">>
    /\ row_data[<<"a">>] = <<"1">>

\* C26: a token with exactly one "=" that the scan takes as the current token gives
\* one pair whose key and value are trimmed of surrounding whitespace, a value
\* NULL becoming the empty string; no value of a RawRow is "NULL".
C26_SinglePairTrimmedNullEmpty ==
    pc = "parts_out" =>
        /\ \A t \in 1..Len(Parts) :
              (ColumnStart(Parts, t) /\ EqCount(Parts[t]) = 1) =>
                 /\ str_strip(TextBeforeEq(Parts[t])) \in DOMAIN row_data
                 /\ LastOfLabel(Parts, t) =>
                       row_data[str_strip(TextBeforeEq(Parts[t]))] =
                          TrimNull(TextAfterEq(Parts[t]))
        /\ \A k \in DOMAIN row_data : row_data[k] # <<"N", "U", "L", "L">>

C26_Witness ==
    /\ pc = "parts_out"
    /\ Parts = <<<<"c", "=", "N", "U", "L", "L">>, <<" ", "a", " ", "=", " ", "2", " ">>, <<"w">>>>
    /\ row_data = (<<"c">> :> <<>>) @@ (<<"a">> :> <<"2">>)

\* C27: a label that starts more than one column of a row has a single entry in
\* the RawRow, with the value of its last occurrence.
C27_LastOccurrenceWins ==
    pc = "parts_out" =>
        /\ DOMAIN row_data =
              {str_strip(TextBeforeEq(Parts[t])) : t \in {u \in 1..Len(Parts) : ColumnStart(Parts, u)}}
        /\ \A t \in 1..Len(Parts) :
              LastOfLabel(Parts, t) =>
                 row_data[str_strip(TextBeforeEq(Parts[t]))] = ColumnValue(Parts, t)

C27_Witness ==
    /\ pc = "parts_out"
    /\ Parts = <<<<"a", "=", "1">>, <<"b", "=", "x", "=", "y">>, <<" ", "a", " ", "=", " ", "2">>>>
    /\ row_data = (<<"a">> :> <<"2">>) @@ (<<"b">> :> <<"x", "=", "y">>)

====
